---- MODULE Spec2Model ----
(***************************************************************************)
(* Model of the model-poker orchestrator (src/src/index.ts): roster         *)
(* loading, the game / hand / betting-round loops of main(), the decision   *)
(* request of getModelAction() and callModel() with its zod validation,     *)
(* the fallback of the catch branch, and the journal written by logger().   *)
(*                                                                         *)
(* The poker-ts Table ("GameRules") is an external library: only its        *)
(* interface is part of the repository (src/unnamed/part_000).  It is       *)
(* modelled as a state authority that answers the queries of the           *)
(* interface and whose internal evolution (who acts next, which actions    *)
(* are legal, who loses chips) is a nondeterministic choice.               *)
(*                                                                         *)
(* The journal is kept for the hand in progress: hand_start opens a new    *)
(* segment, and what was written before it is summarised by the counters.  *)
(* Records and actionTaken calls keep their payload while their turn       *)
(* lasts; afterwards their kind and turn number remain.                    *)
(***************************************************************************)
EXTENDS Integers, Sequences, FiniteSets, TLC

(***************************************************************************)
(* Bounds of the model.                                                    *)
(***************************************************************************)
NumSeats == 2          \* table.numSeats(): capacity of the table
MaxTurns == 2          \* turns GameRules lets one hand last
MaxRounds == 2         \* betting rounds GameRules lets one hand last
MaxHandIndex == 2      \* handIndex is stored saturated at this value
RangeMin == 100        \* chipRange.min offered with bet / raise
RangeMax == 900        \* chipRange.max offered with bet / raise
ScenarioBet == 5000    \* an out-of-range bet size a provider proposes

VARIABLES
    pc,              \* position of main(): see the actions
    rosterSize,      \* number of directories under ./players
    players,         \* players.length: roster entries loaded so far
    seats,           \* table.seats(): per seat a SeatStatus
    handInProgress,  \* table.isHandInProgress()
    roundInProgress, \* table.isBettingRoundInProgress()
    roundsCompleted, \* table.areBettingRoundsCompleted()
    toAct,           \* table.playerToAct()
    legal,           \* table.legalActions()
    turns,           \* turns begun in the current hand
    rounds,          \* betting rounds ended in the current hand
    handIndex,       \* loop variable of the game loop (saturated)
    pending,         \* the outstanding decision requests: the seats asked
    tableAtRequest,  \* GameRules state when the last request was issued
    snapshot,        \* game.playerStacks of the snapshot built for this turn
    taken,           \* the TakenAction getModelAction resolved to
    failure,         \* why the provider failed on this turn ("none" if it did not)
    journal,         \* records appended to the game file since the last hand_start
    applied,         \* actionTaken calls GameRules received in the current hand
    gameStarts,      \* game_start events written
    gameEnds,        \* game_end events written
    error            \* the exception main() ended with ("none" while it has not)

vars == <<pc, rosterSize, players, seats, handInProgress, roundInProgress,
          roundsCompleted, toAct, legal, turns, rounds, handIndex, pending,
          tableAtRequest, snapshot, taken, failure, journal, applied, gameStarts, gameEnds,
          error>>

(***************************************************************************)
(* Types (index.ts lines 24-37).                                           *)
(***************************************************************************)
Action == {"fold", "check", "call", "bet", "raise"}

Aggressive == {"bet", "raise"}

Seats == 0 .. (NumSeats - 1)

\* An optional value is a set with at most one element.
NoChipRange == {}
NoBetSize == {}

OfferedRange == {[min |-> RangeMin, max |-> RangeMax]}

\* LegalActions values GameRules may offer.  chipRange is present iff bet or
\* raise is among the actions.  The interface (legalActions(): any) does not
\* promise that fold is always among them.
LegalActionsSets ==
    { [actions |-> {"fold", "check", "bet"},  chipRange |-> OfferedRange],
      [actions |-> {"fold", "call", "raise"}, chipRange |-> OfferedRange],
      [actions |-> {"fold", "call"},          chipRange |-> NoChipRange],
      [actions |-> {"check", "bet"},          chipRange |-> OfferedRange] }

NoLegal == [actions |-> {}, chipRange |-> NoChipRange]

NoAction == [action |-> "none", betSize |-> NoBetSize]

\* Seat indices that are no seat of the table.
InvalidSeat == NumSeats

NoSeat == NumSeats + 1

\* players[i].name (index.ts lines 123-129): one name per roster index.
PlayerName(i) == <<"player", i>>

Min(a, b) == IF a < b THEN a ELSE b

(***************************************************************************)
(* Provider responses: the input of the take_action tool-use block is      *)
(* arbitrary JSON.  betSize is absent, a number or some other JSON value.  *)
(***************************************************************************)
ProposedSizes == {RangeMin - 1, RangeMin, RangeMax, RangeMax + 1, ScenarioBet}

BetSizeInputs ==
    {[kind |-> "absent", n |-> 0], [kind |-> "string", n |-> 0]}
        \cup {[kind |-> "number", n |-> v] : v \in ProposedSizes}

RawInputs == [action : Action \cup {"shove"}, betSize : BetSizeInputs]

InRange(L, n) == \E r \in L.chipRange : r.min <= n /\ n <= r.max

(***************************************************************************)
(* callModel, lines 285-307: takenActionSchema.parse(toolUseBlock.input).  *)
(* With a chipRange the schema is {action: enum, betSize: number in        *)
(* [min, max], optional}; without one it is {action: enum} and zod strips  *)
(* every other key.  ok = FALSE stands for the ZodError parse() throws.    *)
(***************************************************************************)
ZodParse(L, input) ==
    IF L.chipRange # NoChipRange
    THEN [ok |-> /\ input.action \in L.actions
                 /\ \/ input.betSize.kind = "absent"
                    \/ /\ input.betSize.kind = "number"
                       /\ InRange(L, input.betSize.n),
          value |-> [action |-> input.action,
                     betSize |-> IF input.betSize.kind = "number"
                                 THEN {input.betSize.n} ELSE NoBetSize]]
    ELSE [ok |-> input.action \in L.actions,
          value |-> [action |-> input.action, betSize |-> NoBetSize]]

\* getModelAction, lines 224-228: the catch branch.
Fallback(L) == [action |-> "fold", betSize |-> NoBetSize]

NoData == [name |-> <<>>, action |-> "none", betSize |-> NoBetSize, handIndex |-> 0]

\* A record of the game file: the event kind, the turn of the hand it was
\* written in, and the payload the claims are about.
Event(kind, t, d) == [event |-> kind, turn |-> t, data |-> d]

\* The model keeps the payload of the last record of a sequence only: the
\* records before it keep their kind, their turn and their handIndex.
Headers(j) ==
    [i \in DOMAIN j |->
        [j[i] EXCEPT !.data = [NoData EXCEPT !.handIndex = j[i].data.handIndex]]]

\* Mutant of Logger: the file is overwritten (writeFileSync), not appended to.
LoggerOverwrites(j, ev) == <<ev>>

\* logger, lines 313-318: one record appended to the game file.
Logger(j, ev) == Append(Headers(j), ev)

(***************************************************************************)
(* GameRules (poker-ts Table, interface in src/unnamed/part_000).          *)
(***************************************************************************)
\* What table.seats() holds for a seat: null for an empty seat; an entry with
\* chips ("funded"); an entry whose totalChips is 0 ("zero"), as it is for a
\* seat that is all in once its bets are collected.
SeatStatus == {"null", "funded", "zero"}

\* table.seats().filter(Boolean).length (line 152)
SeatedCount(st) == Cardinality({s \in Seats : st[s] # "null"})

\* Mutant of FirstSeated: with no seat taken the search falls back on seat 0.
FirstSeatedOrZero(st) ==
    IF \E s \in Seats : st[s] # "null"
    THEN CHOOSE s \in Seats : st[s] # "null" /\ \A t \in Seats : t < s => st[t] = "null"
    ELSE 0

\* table.seats().findIndex(Boolean) (line 201); NoSeat stands for -1
FirstSeated(st) ==
    IF \E s \in Seats : st[s] # "null"
    THEN CHOOSE s \in Seats : st[s] # "null" /\ \A t \in Seats : t < s => st[t] = "null"
    ELSE NoSeat

\* actionTaken(action, betSize) accepts an action that is legal for the seat
\* to act, with a bet size inside the chip range when it is bet or raise; it
\* throws on anything else.
Accepts(L, a) ==
    /\ a.action \in L.actions
    /\ a.action \in Aggressive => \E n \in a.betSize : InRange(L, n)

\* What GameRules may report once its state has changed: the betting round is
\* over, or some seat is to act with some legal actions.
TurnChoices(st, t) ==
    {[inProgress |-> FALSE, toAct |-> NoSeat, legal |-> NoLegal]}
        \cup IF t < MaxTurns
             THEN {[inProgress |-> TRUE, toAct |-> s, legal |-> L] :
                       s \in {x \in Seats : st[x] = "funded"} \cup {InvalidSeat},
                       L \in LegalActionsSets}
             ELSE {}

\* sitDown(index, INITIAL_CHIPS): what a seat is funded with (line 70)
INITIAL_CHIPS == 1000

\* seat.totalChips of a non-null entry of table.seats(); the chips of the
\* roster loop stand for any positive amount.
TotalChips(status) == IF status = "funded" THEN INITIAL_CHIPS ELSE 0

\* createTemplateData, lines 341-360: game.playerStacks.  The entries of
\* table.seats() below players.length, a non-null one rendered "active" with
\* its chips and a null one "eliminated" with none.
PlayerStacks(st, n) ==
    [i \in 0 .. (Min(n, NumSeats) - 1) |->
        IF st[i] # "null"
        THEN [name |-> PlayerName(i), status |-> "active",
              totalChips |-> TotalChips(st[i])]
        ELSE [name |-> PlayerName(i), status |-> "eliminated", totalChips |-> 0]]

NoSnapshot == <<>>

TableState == <<seats, handInProgress, roundInProgress, roundsCompleted, toAct, legal>>

NoTable == <<>>

Init ==
    /\ pc = "load"
    /\ rosterSize \in 0 .. (NumSeats + 1)
    /\ players = 0
    /\ seats = [s \in Seats |-> "null"]
    /\ handInProgress = FALSE
    /\ roundInProgress = FALSE
    /\ roundsCompleted = FALSE
    /\ toAct = NoSeat
    /\ legal = NoLegal
    /\ turns = 0
    /\ rounds = 0
    /\ handIndex = 1
    /\ pending = <<>>
    /\ tableAtRequest = NoTable
    /\ snapshot = NoSnapshot
    /\ taken = NoAction
    /\ failure = "none"
    /\ journal = <<>>
    /\ applied = <<>>
    /\ gameStarts = 0
    /\ gameEnds = 0
    /\ error = "none"

\* Mutant of LoadPlayer: the roster is loaded without the capacity check.
LoadPlayerUnchecked ==
    /\ pc = "load"
    /\ players < rosterSize
    /\ players' = players + 1
    /\ pc' = "load"
    /\ seats' = IF players \in Seats THEN [seats EXCEPT ![players] = "funded"] ELSE seats
    /\ UNCHANGED <<rosterSize, handInProgress, roundInProgress, roundsCompleted,
                   toAct, legal, turns, rounds, handIndex, pending, tableAtRequest, snapshot,
                   taken, failure, journal, applied, gameStarts, gameEnds, error>>

(***************************************************************************)
(* main(), lines 110-141: one iteration of the roster loop.                *)
(***************************************************************************)
LoadPlayer ==
    /\ pc = "load"
    /\ players < rosterSize
    /\ players' = players + 1
    /\ IF players + 1 > NumSeats
       THEN /\ pc' = "crashed"
            /\ error' = "Too many players"
            /\ seats' = seats
       ELSE /\ pc' = "load"
            /\ error' = error
            /\ seats' = [seats EXCEPT ![players] = "funded"]   \* sitDown
    /\ UNCHANGED <<rosterSize, handInProgress, roundInProgress, roundsCompleted,
                   toAct, legal, turns, rounds, handIndex, pending, tableAtRequest, snapshot,
                   taken, failure, journal, applied, gameStarts, gameEnds>>

\* line 144: logger("game_start", ...)
LogGameStart ==
    /\ pc = "load"
    /\ players = rosterSize
    /\ journal' = Logger(journal, Event("game_start", 0, NoData))
    /\ gameStarts' = gameStarts + 1
    /\ pc' = "game"
    /\ UNCHANGED <<rosterSize, players, seats, handInProgress, roundInProgress,
                   roundsCompleted, toAct, legal, turns, rounds, handIndex, pending,
                   tableAtRequest, snapshot, taken, failure, applied, gameEnds, error>>

\* Mutant of MoreThanOneSeated: the loop test is off by one.
MoreThanTwoSeated(st) == SeatedCount(st) > 2

\* The loop test of line 152.
MoreThanOneSeated(st) == SeatedCount(st) > 1

\* The events of completed hands leave the window the model keeps.
Window(j) == <<>>

(***************************************************************************)
(* lines 150-157: the game loop test holds; startHand and hand_start.      *)
(***************************************************************************)
StartHand ==
    /\ pc = "game"
    /\ MoreThanOneSeated(seats)
    /\ handInProgress' = TRUE
    /\ roundsCompleted' = FALSE
    /\ \E c \in TurnChoices(seats, 0) :
           /\ roundInProgress' = c.inProgress
           /\ toAct' = c.toAct
           /\ legal' = c.legal
    /\ turns' = 0
    /\ rounds' = 0
    /\ applied' = <<>>
    /\ journal' = Logger(Window(journal),
                          Event("hand_start", 0, [NoData EXCEPT !.handIndex = handIndex]))
    /\ pc' = "hand"
    /\ UNCHANGED <<rosterSize, players, seats, handIndex, pending, tableAtRequest, snapshot,
                   taken, failure, gameStarts, gameEnds, error>>

(***************************************************************************)
(* lines 200-202: the game loop test fails; game_end names the first       *)
(* seated player.  With no seat taken players[-1].name is a TypeError.     *)
(***************************************************************************)
GameEnd ==
    /\ pc = "game"
    /\ ~MoreThanOneSeated(seats)
    /\ IF FirstSeated(seats) = NoSeat
       THEN /\ pc' = "crashed"
            /\ error' = "TypeError: no seated player"
            /\ UNCHANGED <<journal, gameEnds>>
       ELSE /\ journal' = Logger(journal,
                       Event("game_end", turns,
                             [NoData EXCEPT !.name = PlayerName(FirstSeated(seats))]))
            /\ gameEnds' = gameEnds + 1
            /\ error' = error
            /\ pc' = "done"
    /\ UNCHANGED <<rosterSize, players, seats, handInProgress, roundInProgress,
                   roundsCompleted, toAct, legal, turns, rounds, handIndex, pending,
                   tableAtRequest, snapshot, taken, failure, applied, gameStarts>>

\* line 160: while (table.isHandInProgress()) holds
ContinueHand ==
    /\ pc = "hand"
    /\ handInProgress
    /\ pc' = "round"
    /\ UNCHANGED <<rosterSize, players, seats, handInProgress, roundInProgress,
                   roundsCompleted, toAct, legal, turns, rounds, handIndex, pending,
                   tableAtRequest, snapshot, taken, failure, journal, applied, gameStarts,
                   gameEnds, error>>

\* Mutant of EndHand: the loop variable is not incremented.
EndHandKeepsIndex ==
    /\ pc = "hand"
    /\ ~handInProgress
    /\ journal' = Logger(journal, Event("hand_end", turns, NoData))
    /\ handIndex' = handIndex
    /\ pc' = "game"
    /\ UNCHANGED <<rosterSize, players, seats, handInProgress, roundInProgress,
                   roundsCompleted, toAct, legal, turns, rounds, pending,
                   tableAtRequest, snapshot, taken, failure, applied, gameStarts,
                   gameEnds, error>>

\* lines 160, 197, 153: the hand is over; hand_end; handIndex++
EndHand ==
    /\ pc = "hand"
    /\ ~handInProgress
    /\ journal' = Logger(journal, Event("hand_end", turns, NoData))
    /\ handIndex' = Min(handIndex + 1, MaxHandIndex)
    /\ pc' = "game"
    /\ UNCHANGED <<rosterSize, players, seats, handInProgress, roundInProgress,
                   roundsCompleted, toAct, legal, turns, rounds, pending,
                   tableAtRequest, snapshot, taken, failure, applied, gameStarts, gameEnds, error>>

(***************************************************************************)
(* What the decision call of this turn comes back with: a transport error  *)
(* (messages.create rejects), a response without a take_action tool-use    *)
(* block, or a tool-use block with some input.                             *)
(***************************************************************************)
Responses ==
    {[kind |-> "transport_error"], [kind |-> "no_tool_use"]}
        \cup {[kind |-> "tool_use", input |-> i] : i \in RawInputs}

\* callModel, lines 265-307: the TakenAction returned, or the error thrown.
CallModel(L, resp) ==
    IF resp.kind = "transport_error"
    THEN [ok |-> FALSE, error |-> "transport", value |-> NoAction]
    ELSE IF resp.kind = "no_tool_use"
    THEN [ok |-> FALSE, error |-> "no_tool_use", value |-> NoAction]
    ELSE IF ZodParse(L, resp.input).ok
    THEN [ok |-> TRUE, error |-> "none", value |-> ZodParse(L, resp.input).value]
    ELSE [ok |-> FALSE, error |-> "validation", value |-> NoAction]

\* getModelAction, lines 218-228: try { return await callModel } catch { fold }
GetModelAction(L, resp) ==
    IF CallModel(L, resp).ok THEN CallModel(L, resp).value ELSE Fallback(L)

\* Mutant of BeginTurn: the snapshot is built inside the try block, so a seat
\* index without a roster player ends in the fallback.
BeginTurnAbsorbsInvalidSeat ==
    /\ pc = "round"
    /\ roundInProgress
    /\ turns' = turns + 1
    /\ IF toAct < players
       THEN /\ pending' = Append(pending, toAct)
            /\ tableAtRequest' = TableState
            /\ snapshot' = PlayerStacks(seats, players)
            /\ taken' = NoAction
            /\ failure' = "none"
            /\ pc' = "awaiting"
       ELSE /\ taken' = Fallback(legal)
            /\ failure' = "snapshot"
            /\ tableAtRequest' = TableState
            /\ snapshot' = PlayerStacks(seats, players)
            /\ pc' = "resolved"
            /\ UNCHANGED pending
    /\ journal' = Headers(journal)
    /\ applied' = Headers(applied)
    /\ UNCHANGED <<rosterSize, players, seats, handInProgress, roundInProgress,
                   roundsCompleted, toAct, legal, rounds, handIndex, gameStarts,
                   gameEnds, error>>

\* Mutant of BeginTurn: the request is issued and main() goes on without
\* awaiting it.
BeginTurnNoAwait ==
    /\ pc = "round"
    /\ roundInProgress
    /\ turns' = turns + 1
    /\ taken' = NoAction
    /\ failure' = "none"
    /\ IF toAct < players
       THEN /\ pending' = Append(pending, toAct)
            /\ tableAtRequest' = TableState
            /\ snapshot' = PlayerStacks(seats, players)
            /\ error' = error
            /\ pc' = "resolved"
       ELSE /\ pc' = "crashed"
            /\ error' = "TypeError: no roster player"
            /\ UNCHANGED <<pending, tableAtRequest, snapshot>>
    /\ journal' = Headers(journal)
    /\ applied' = Headers(applied)
    /\ UNCHANGED <<rosterSize, players, seats, handInProgress, roundInProgress,
                   roundsCompleted, toAct, legal, rounds, handIndex, gameStarts,
                   gameEnds>>

(***************************************************************************)
(* lines 162-171 and 208-223, 265: the betting round is in progress; the   *)
(* acting seat is resolved to a player, the snapshot is built and the      *)
(* decision request is issued.  A seat index without a roster player makes *)
(* createTemplateData throw outside the try block.  The payloads of the    *)
(* turns before this one leave the model's window.                         *)
(***************************************************************************)
BeginTurn ==
    /\ pc = "round"
    /\ roundInProgress
    /\ turns' = turns + 1
    /\ taken' = NoAction
    /\ failure' = "none"
    /\ IF toAct < players
       THEN /\ pending' = Append(pending, toAct)
            /\ tableAtRequest' = TableState
            /\ snapshot' = PlayerStacks(seats, players)
            /\ error' = error
            /\ pc' = "awaiting"
       ELSE /\ pc' = "crashed"
            /\ error' = "TypeError: no roster player"
            /\ UNCHANGED <<pending, tableAtRequest, snapshot>>
    /\ journal' = Headers(journal)
    /\ applied' = Headers(applied)
    /\ UNCHANGED <<rosterSize, players, seats, handInProgress, roundInProgress,
                   roundsCompleted, toAct, legal, rounds, handIndex, gameStarts,
                   gameEnds>>

\* The await of line 171 resumes with the TakenAction of getModelAction.
Resolve(resp) ==
    /\ pc = "awaiting"
    /\ taken' = GetModelAction(legal, resp)
    /\ failure' = CallModel(legal, resp).error
    /\ pending' = Tail(pending)
    /\ pc' = "resolved"
    /\ UNCHANGED <<rosterSize, players, seats, handInProgress, roundInProgress,
                   roundsCompleted, toAct, legal, turns, rounds, handIndex,
                   tableAtRequest, snapshot, journal, applied, gameStarts, gameEnds, error>>

ProviderReturns == \E i \in RawInputs : Resolve([kind |-> "tool_use", input |-> i])

ProviderOmitsToolUse == Resolve([kind |-> "no_tool_use"])

ProviderFails == Resolve([kind |-> "transport_error"])

\* Mutant of LogPlayerAction: the record leaves the bet size out.
LogPlayerActionDropsBetSize ==
    /\ pc = "resolved"
    /\ journal' = Logger(journal,
               Event("player_action", turns,
                     [NoData EXCEPT !.name = PlayerName(toAct),
                                    !.action = taken.action]))
    /\ pc' = "logged"
    /\ UNCHANGED <<rosterSize, players, seats, handInProgress, roundInProgress,
                   roundsCompleted, toAct, legal, turns, rounds, handIndex, pending,
                   tableAtRequest, snapshot, taken, failure, applied, gameStarts,
                   gameEnds, error>>

\* line 175: logger("player_action", { name, cards, action, betSize })
LogPlayerAction ==
    /\ pc = "resolved"
    /\ journal' = Logger(journal,
               Event("player_action", turns,
                     [name |-> PlayerName(toAct), action |-> taken.action,
                      betSize |-> taken.betSize, handIndex |-> 0]))
    /\ pc' = "logged"
    /\ UNCHANGED <<rosterSize, players, seats, handInProgress, roundInProgress,
                   roundsCompleted, toAct, legal, turns, rounds, handIndex, pending,
                   tableAtRequest, snapshot, taken, failure, applied, gameStarts, gameEnds, error>>

\* Mutant of ApplyAction: a turn that fell back is not applied.
ApplyActionSkipsFallback ==
    /\ pc = "logged"
    /\ applied' = IF failure # "none"
                  THEN applied
                  ELSE Append(Headers(applied),
                              Event("actionTaken", turns,
                                    [name |-> PlayerName(toAct),
                                     action |-> taken.action,
                                     betSize |-> taken.betSize, handIndex |-> 0]))
    /\ tableAtRequest' = NoTable
    /\ snapshot' = NoSnapshot
    /\ IF failure # "none"
       THEN /\ error' = error
            /\ pc' = "round"
            /\ UNCHANGED <<roundInProgress, toAct, legal>>
       ELSE IF Accepts(legal, taken)
       THEN /\ \E c \in TurnChoices(seats, turns) :
                   /\ roundInProgress' = c.inProgress
                   /\ toAct' = c.toAct
                   /\ legal' = c.legal
            /\ error' = error
            /\ pc' = "round"
       ELSE /\ pc' = "crashed"
            /\ error' = "actionTaken rejected the action"
            /\ UNCHANGED <<roundInProgress, toAct, legal>>
    /\ UNCHANGED <<rosterSize, players, seats, handInProgress, roundsCompleted,
                   turns, rounds, handIndex, pending, taken, failure, journal,
                   gameStarts, gameEnds>>

(***************************************************************************)
(* line 178: table.actionTaken(action, betSize).  GameRules moves on to    *)
(* the next actor or ends the round; an action it does not accept makes it *)
(* throw, and nothing in main() catches that.                              *)
(***************************************************************************)
ApplyAction ==
    /\ pc = "logged"
    /\ applied' = Append(Headers(applied),
                          Event("actionTaken", turns,
                                [name |-> PlayerName(toAct), action |-> taken.action,
                                 betSize |-> taken.betSize, handIndex |-> 0]))
    /\ tableAtRequest' = NoTable
    /\ snapshot' = NoSnapshot
    /\ IF Accepts(legal, taken)
       THEN /\ \E c \in TurnChoices(seats, turns) :
                   /\ roundInProgress' = c.inProgress
                   /\ toAct' = c.toAct
                   /\ legal' = c.legal
            /\ error' = error
            /\ pc' = "round"
       ELSE /\ pc' = "crashed"
            /\ error' = "actionTaken rejected the action"
            /\ UNCHANGED <<roundInProgress, toAct, legal>>
    /\ UNCHANGED <<rosterSize, players, seats, handInProgress, roundsCompleted,
                   turns, rounds, handIndex, pending, taken, failure, journal,
                   gameStarts, gameEnds>>

(***************************************************************************)
(* lines 162, 182-186: the betting round is over; endBettingRound and      *)
(* end_betting_round.  GameRules collects the bets (a seat that went all   *)
(* in is left with zero chips), and either all rounds are completed or the *)
(* next round begins.  The payload of the last call leaves the window.     *)
(***************************************************************************)
EndBettingRound ==
    /\ pc = "round"
    /\ ~roundInProgress
    /\ rounds' = rounds + 1
    /\ \E done \in BOOLEAN :
           /\ rounds + 1 >= MaxRounds => done
           /\ roundsCompleted' = done
           /\ \E c \in TurnChoices(seats, turns) :
                  /\ done => ~c.inProgress
                  /\ roundInProgress' = c.inProgress
                  /\ toAct' = c.toAct
                  /\ legal' = c.legal
    /\ \E Z \in SUBSET {s \in Seats : seats[s] = "funded"} :
           seats' = [s \in Seats |-> IF s \in Z THEN "zero" ELSE seats[s]]
    /\ journal' = Logger(journal, Event("end_betting_round", turns, NoData))
    /\ applied' = Headers(applied)
    /\ pc' = "settled"
    /\ UNCHANGED <<rosterSize, players, handInProgress, turns, handIndex,
                   pending, tableAtRequest, snapshot, taken, failure, gameStarts, gameEnds, error>>

(***************************************************************************)
(* lines 189-193: all betting rounds are completed; showdown and the       *)
(* showdown event.  GameRules pays the pots and the hand is over; a seat   *)
(* left without chips is stood up (null) or stays listed with zero chips:  *)
(* seats() is declared (any | null)[] and nothing in main() depends on     *)
(* which.  Some seat holds the chips.                                      *)
(***************************************************************************)
Showdown ==
    /\ pc = "settled"
    /\ roundsCompleted
    /\ handInProgress' = FALSE
    /\ \E after \in [Seats -> SeatStatus] :
           /\ \A s \in Seats : seats[s] = "null" => after[s] = "null"
           /\ \E s \in Seats : after[s] = "funded"
           /\ seats' = after
    /\ journal' = Logger(journal, Event("showdown", turns, NoData))
    /\ pc' = "hand"
    /\ UNCHANGED <<rosterSize, players, roundInProgress, roundsCompleted, toAct,
                   legal, turns, rounds, handIndex, pending, tableAtRequest, snapshot, taken,
                   failure, applied, gameStarts, gameEnds, error>>

\* Mutant of NextRound: the test of line 189 is skipped.
NextRoundSkipsShowdown ==
    /\ pc = "settled"
    /\ pc' = "hand"
    /\ UNCHANGED <<rosterSize, players, seats, handInProgress, roundInProgress,
                   roundsCompleted, toAct, legal, turns, rounds, handIndex, pending,
                   tableAtRequest, snapshot, taken, failure, journal, applied,
                   gameStarts, gameEnds, error>>

\* line 189: the rounds are not completed; back to the test of line 160
NextRound ==
    /\ pc = "settled"
    /\ ~roundsCompleted
    /\ pc' = "hand"
    /\ UNCHANGED <<rosterSize, players, seats, handInProgress, roundInProgress,
                   roundsCompleted, toAct, legal, turns, rounds, handIndex, pending,
                   tableAtRequest, snapshot, taken, failure, journal, applied, gameStarts,
                   gameEnds, error>>

Next ==
    \/ LoadPlayer
    \/ LogGameStart
    \/ StartHand
    \/ GameEnd
    \/ ContinueHand
    \/ EndHand
    \/ BeginTurn
    \/ ProviderReturns
    \/ ProviderOmitsToolUse
    \/ ProviderFails
    \/ LogPlayerAction
    \/ ApplyAction
    \/ EndBettingRound
    \/ Showdown
    \/ NextRound

Spec == Init /\ [][Next]_vars

(***************************************************************************)
(* The runs that end in no exception: the roster has two players at least  *)
(* and fits the table, GameRules names seats of the roster, and every      *)
(* action getModelAction returns is one GameRules accepts.  main() is one  *)
(* thread of control that runs on whenever it can: weak fairness of its    *)
(* steps, the resumption of the await included.                            *)
(***************************************************************************)
LiveInit == Init /\ rosterSize \in 2 .. NumSeats

LiveNext ==
    /\ Next
    /\ toAct' # InvalidSeat
    /\ pc' = "resolved" => Accepts(legal', taken')

LiveSpec == LiveInit /\ [][LiveNext]_vars /\ WF_vars(LiveNext)

(***************************************************************************)
(* The runs in which the provider may stay silent.  main() runs on         *)
(* whenever it can, but the await of line 171 resumes only when the        *)
(* promise of messages.create (lines 265-272) settles: the call is made    *)
(* without a timeout and nothing in the program settles it, so the steps   *)
(* of the provider are not fair.                                           *)
(***************************************************************************)
OrchestratorStep ==
    \/ LoadPlayer
    \/ LogGameStart
    \/ StartHand
    \/ GameEnd
    \/ ContinueHand
    \/ EndHand
    \/ BeginTurn
    \/ LogPlayerAction
    \/ ApplyAction
    \/ EndBettingRound
    \/ Showdown
    \/ NextRound

SilentProviderSpec == Init /\ [][Next]_vars /\ WF_vars(OrchestratorStep)

(***************************************************************************)
(* Properties.                                                             *)
(***************************************************************************)
\* The player_action records of a journal, and their number.
PlayerActions(j) == SelectSeq(j, LAMBDA e : e.event = "player_action")

CountOf(j, kind) == Len(SelectSeq(j, LAMBDA e : e.event = kind))

\* getModelAction has returned to the loop of main().
Returned == pc \in {"resolved", "logged"}

\* C1: the TakenAction getModelAction returns, from the provider or from the
\* catch branch, has an action kind that is among the legal actions offered
\* for the turn, whatever set GameRules offers.
C1_ReturnedActionIsLegal ==
    Returned => taken.action \in legal.actions

\* C2: a proposal callModel's validation accepts is an offered action, carries
\* a bet size if and only if the action is bet or raise, and that bet size
\* lies in the offered chip range.
C2_AcceptedActionWellFormed ==
    (Returned /\ failure = "none") =>
        /\ taken.action \in legal.actions
        /\ taken.betSize # NoBetSize <=> taken.action \in Aggressive
        /\ \A n \in taken.betSize : InRange(legal, n)

\* C3: when the provider fails, the substituted action is fold if fold is
\* among the offered legal actions and check otherwise.
SafeDefault(L) == IF "fold" \in L.actions THEN "fold" ELSE "check"

C3_FallbackIsSafeDefault ==
    (Returned /\ failure # "none") =>
        taken.action = SafeDefault(legal)

\* The loop of main() is at a point where it queries GameRules for what
\* comes next: every turn begun so far has run to its end.
BetweenTurns == pc \in {"round", "settled", "hand", "game", "done"}

\* C4: every turn of the betting-round loop, the turns on which the provider
\* fails included, produces one TakenAction and makes one actionTaken call,
\* the call of turn i being the i-th call of the hand, before the loop
\* queries GameRules again; no turn makes more than one call.
C4_OneApplyPerTurn ==
    /\ Len(applied) <= turns
    /\ Len(applied) >= turns - 1
    /\ \A i \in DOMAIN applied : applied[i].turn = i
    /\ Returned => taken # NoAction /\ Len(applied) = turns - 1
    /\ BetweenTurns => Len(applied) = turns

\* Witness of C4: the provider failed on the second turn of a hand, and the
\* loop is back at its test with two calls made.
C4_Witness ==
    /\ pc = "round"
    /\ turns = 2
    /\ Len(applied) = 2
    /\ failure # "none"

\* C5: no exception escapes the betting-round loop because of what the
\* provider returned or failed to return, a bet or raise without a bet size
\* included: on a turn on which GameRules offers fold, so that the fallback
\* is an action it accepts, actionTaken never throws.
C5_DecisionFailuresContained ==
    "fold" \in legal.actions => error # "actionTaken rejected the action"

\* The hand whose records the journal holds is completed.
HandCompleted ==
    /\ pc = "game"
    /\ journal # <<>>
    /\ journal[Len(journal)].event = "hand_end"

\* C6: the journal of a completed hand holds one hand_start, as its first
\* record, one hand_end, as its last, and one player_action per action
\* applied to GameRules, in the order of the turns.
C6_JournalOfCompletedHand ==
    HandCompleted =>
        /\ journal[1].event = "hand_start"
        /\ CountOf(journal, "hand_start") = 1
        /\ CountOf(journal, "hand_end") = 1
        /\ Len(PlayerActions(journal)) = Len(applied)
        /\ \A i \in DOMAIN applied :
               /\ PlayerActions(journal)[i].turn = i
               /\ applied[i].turn = i

\* Witness of C6: a completed hand of two turns, the last one a fallback.
C6_Witness ==
    /\ HandCompleted
    /\ Len(applied) = 2
    /\ failure # "none"

\* C8: when the provider fails on a turn, the journal holds a record of the
\* failure apart from the player_action record of that turn.
C8_FailureIsJournalled ==
    (pc = "logged" /\ failure # "none") =>
        \E i \in DOMAIN journal :
            /\ journal[i].event # "player_action"
            /\ journal[i].turn = turns
            /\ i > 1

\* C9: the journal holds no player_action record for an action that
\* GameRules has not yet been given.
C9_AppliedBeforeLogged ==
    Len(PlayerActions(journal)) <= Len(applied)

\* C10: at most one decision request is outstanding, a request is
\* outstanding only while main() awaits it, and GameRules is in the state in
\* which the request was issued for as long as it is outstanding and when it
\* has resolved.
C10_OneRequestNoMutation ==
    /\ Len(pending) <= 1
    /\ pending # <<>> <=> pc = "awaiting"
    /\ pc \in {"awaiting", "resolved", "logged"} => TableState = tableAtRequest

\* Witness of C10: the second request of a hand is outstanding.
C10_Witness ==
    /\ pc = "awaiting"
    /\ turns = 2
    /\ Len(pending) = 1
    /\ Len(applied) = 1

\* The game loop has exited and game_end is written.
GameOver == pc = "done"

\* C7 as stated: every run of a roster of two or more reaches a state with
\* one seat left and one game_end written.
C7_EventuallyGameEnd ==
    <>(GameOver /\ gameEnds = 1 /\ SeatedCount(seats) = 1)

\* C7 as amended: game_end is written at most once, as the last record of
\* the run, and only when one seat is left at the table; hands are started
\* only while more than one seat is.
C7_GameEndOnlyWithOneSeatLeft ==
    /\ gameEnds <= 1
    /\ gameEnds = 1 <=> GameOver
    /\ GameOver => /\ SeatedCount(seats) = 1
                   /\ journal[Len(journal)].event = "game_end"
                   /\ journal[Len(journal)].data.name = PlayerName(FirstSeated(seats))
    /\ handInProgress => SeatedCount(seats) > 1

\* Witness of C7: the game is over after a second hand at least.
C7_Witness ==
    /\ GameOver
    /\ handIndex = MaxHandIndex
    /\ SeatedCount(seats) = 1
    /\ gameEnds = 1

\* The seats that hold chips.
FundedSeats(st) == {s \in Seats : st[s] = "funded"}

\* The game loop is at its test and the test fails: the loop exits.
LoopExits == pc = "game" /\ ~MoreThanOneSeated(seats)

\* C11: when game_end is written exactly one seat holds chips and the winner
\* the record names is the player of that seat; when the game loop exits with
\* no seat holding chips the run ends in an error and game_end is not written.
C11_GameEndNamesTheFundedSeat ==
    /\ [](gameEnds > 0 =>
             /\ Cardinality(FundedSeats(seats)) = 1
             /\ journal[Len(journal)].event = "game_end"
             /\ \A s \in FundedSeats(seats) :
                    journal[Len(journal)].data.name = PlayerName(s))
    /\ [][(LoopExits /\ FundedSeats(seats) = {}) =>
              /\ pc' = "crashed"
              /\ error' = "TypeError: no seated player"
              /\ gameEnds' = 0
              /\ journal' = journal]_vars

\* Witness of C11: the game is over and the winner sits in the second seat.
C11_Witness ==
    /\ pc = "done"
    /\ gameEnds = 1
    /\ seats[0] = "null"
    /\ seats[1] = "funded"
    /\ journal[Len(journal)].data.name = PlayerName(1)

\* The game loop has exited with no seat taken and the run has ended in the
\* TypeError of line 201.
C11_CrashWitness ==
    /\ pc = "crashed"
    /\ error = "TypeError: no seated player"
    /\ FundedSeats(seats) = {}
    /\ gameEnds = 0

\* C12: a roster of more players than the table has seats makes the run end
\* in an error while the roster is loaded, before any hand: startHand is not
\* called and no hand_start, player_action or game_end record is written.
C12_TooManyPlayersAbortsBeforeAnyHand ==
    rosterSize > NumSeats =>
        /\ pc \in {"load", "crashed"}
        /\ players > NumSeats => pc = "crashed" /\ error = "Too many players"
        /\ ~handInProgress
        /\ handIndex = 1 /\ turns = 0 /\ applied = <<>>
        /\ \A i \in DOMAIN journal :
               journal[i].event \notin {"hand_start", "player_action", "game_end"}
        /\ gameEnds = 0

\* Witness of C12: the player beyond the last seat has been read and the run
\* has ended in the capacity error.
C12_Witness ==
    /\ rosterSize = NumSeats + 1
    /\ players = NumSeats + 1
    /\ pc = "crashed"
    /\ error = "Too many players"
    /\ SeatedCount(seats) = NumSeats

\* The acting seat GameRules names has no roster player.
NoRosterPlayer == toAct >= players

\* C13: when playerToAct names a seat without a roster player the turn ends
\* in an error the fallback does not absorb: no request is issued and no
\* TakenAction substituted, the turn makes no actionTaken call and writes no
\* player_action record, and the run stops there with nothing more written.
C13_InvalidActingSeatIsFatal ==
    /\ [](pc \in {"awaiting", "resolved", "logged"} => ~NoRosterPlayer)
    /\ [](error = "TypeError: no roster player" =>
             /\ pc = "crashed"
             /\ NoRosterPlayer
             /\ taken = NoAction /\ failure = "none" /\ pending = <<>>
             /\ Len(applied) = turns - 1
             /\ Len(PlayerActions(journal)) = turns - 1)
    /\ [][(pc = "round" /\ roundInProgress /\ NoRosterPlayer) =>
              /\ error' = "TypeError: no roster player"
              /\ Len(journal') = Len(journal)
              /\ Len(applied') = Len(applied)]_vars
    /\ [][pc # "crashed"]_vars

\* Witness of C13: the second turn of a hand is given a seat without a roster
\* player, after a first turn that was applied.
C13_Witness ==
    /\ pc = "crashed"
    /\ error = "TypeError: no roster player"
    /\ toAct = InvalidSeat
    /\ turns = 2
    /\ Len(applied) = 1

\* C14: in the snapshot built for a turn, a roster seat without chips is
\* rendered "eliminated" with totalChips 0, whether table.seats() holds null
\* for it or an entry of zero chips, and a seat with chips is rendered
\* "active" with its chips.
C14_SeatWithoutChipsRenderedEliminated ==
    \A i \in DOMAIN snapshot :
        IF seats[i] = "funded"
        THEN /\ snapshot[i].status = "active"
             /\ snapshot[i].totalChips = TotalChips(seats[i])
        ELSE /\ snapshot[i].status = "eliminated"
             /\ snapshot[i].totalChips = 0

\* C15: at the test of the game loop a hand is started (startHand, then
\* hand_start) if and only if more than one seat holds chips; a seat that is
\* listed with zero chips does not count.
C15_HandStartedIffTwoSeatsFunded ==
    [][pc = "game" =>
          (/\ pc' = "hand"
           /\ handInProgress'
           /\ journal'[Len(journal')].event = "hand_start")
              <=> Cardinality(FundedSeats(seats)) > 1]_vars

\* The proposals of an offered action that takes no bet size, made with a
\* betSize value all the same.
SizedPassiveProposals(L) ==
    {i \in RawInputs : /\ i.action \in L.actions \ Aggressive
                       /\ i.betSize.kind # "absent"}

\* C16: a proposal of fold, check or call that carries a betSize value is
\* accepted whatever the value, a string or a number out of the chip range
\* included, and the value is dropped: the TakenAction returned, the
\* player_action record and the actionTaken call carry no bet size.
C16_SuppliedBetSizeIgnored ==
    /\ [][\A i \in SizedPassiveProposals(legal) :
              Resolve([kind |-> "tool_use", input |-> i]) =>
                  /\ failure' = "none"
                  /\ taken' = [action |-> i.action, betSize |-> NoBetSize]]_vars
    /\ [](taken.action \notin Aggressive => taken.betSize = NoBetSize)
    /\ [](\A i \in DOMAIN journal :
              journal[i].data.action \notin Aggressive =>
                  journal[i].data.betSize = NoBetSize)
    /\ [](\A i \in DOMAIN applied :
              applied[i].data.action \notin Aggressive =>
                  applied[i].data.betSize = NoBetSize)

\* C17: a decision request does not stay outstanding for ever: a timeout
\* turns a call that never resolves into a provider failure, so every
\* request is followed by a TakenAction and by the actionTaken call of its
\* turn.
C17_RequestEventuallyApplied ==
    /\ (pc = "awaiting") ~> (pc = "resolved" /\ taken # NoAction)
    /\ (pc = "awaiting") ~> (pending = <<>> /\ Len(applied) = turns)

\* The kind of the last record of a journal.
LastEvent(j) == IF j = <<>> THEN "none" ELSE j[Len(j)].event

\* This step appends one record to the journal.
Appends == Len(journal') = Len(journal) + 1

\* C18: within a hand, each time GameRules reports the betting round over
\* the orchestrator calls endBettingRound once and writes one
\* end_betting_round record; the record after it is showdown, written with
\* the showdown call, if and only if GameRules then reports all rounds
\* completed, and a player_action or end_betting_round of the next round
\* otherwise.
C18_RoundEndThenShowdownIffCompleted ==
    /\ [](CountOf(journal, "end_betting_round") = rounds)
    /\ [](CountOf(journal, "showdown") <= 1)
    /\ [](LastEvent(journal) = "showdown" => roundsCompleted /\ ~handInProgress)
    /\ [][(pc = "round" /\ ~roundInProgress) =>
              /\ rounds' = rounds + 1
              /\ Appends
              /\ LastEvent(journal') = "end_betting_round"]_vars
    /\ [][(LastEvent(journal) = "end_betting_round" /\ Appends) =>
              IF roundsCompleted
              THEN LastEvent(journal') = "showdown" /\ handInProgress /\ ~handInProgress'
              ELSE LastEvent(journal') \in {"player_action", "end_betting_round"}]_vars

\* Witness of C18: the showdown of a hand of two betting rounds, the first of
\* which ended with the rounds not completed.
C18_Witness ==
    /\ LastEvent(journal) = "showdown"
    /\ rounds = 2
    /\ CountOf(journal, "end_betting_round") = 2
    /\ Len(applied) >= 1

\* This step writes a record of the given kind: hand_start opens the window
\* of a new hand, every other record is appended.
Writes(kind) ==
    /\ LastEvent(journal') = kind
    /\ IF kind = "hand_start" THEN ~handInProgress /\ handInProgress' ELSE Appends

\* The run has ended: game_end is written, or main() has thrown.
Ended == pc \in {"done", "crashed"}

\* C19: the journal starts with one game_start, written before any
\* hand_start; hand_start and hand_end alternate, hand_start first, and the
\* hand_start records carry handIndex 1, 2, 3, ... in order (up to the value
\* at which the model stores it saturated); game_end is written at most
\* once, after the last hand_end; nothing is written once game_end is
\* written or main() has thrown.
C19_JournalStructure ==
    /\ [](gameStarts <= 1 /\ gameEnds <= 1)
    /\ [](journal # <<>> => gameStarts = 1)
    /\ [][Writes("game_start") => journal = <<>> /\ gameStarts = 0]_vars
    /\ [][Writes("hand_start") =>
              /\ journal' = <<journal'[1]>>
              /\ \/ /\ LastEvent(journal) = "game_start"
                    /\ journal'[1].data.handIndex = 1
                 \/ /\ LastEvent(journal) = "hand_end"
                    /\ journal[1].event = "hand_start"
                    /\ journal'[1].data.handIndex =
                           Min(journal[1].data.handIndex + 1, MaxHandIndex)]_vars
    /\ [][Writes("hand_end") =>
              /\ journal[1].event = "hand_start"
              /\ CountOf(journal, "hand_end") = 0
              /\ CountOf(journal, "hand_start") = 1]_vars
    /\ [][Writes("game_end") =>
              /\ LastEvent(journal) \in {"hand_end", "game_start"}
              /\ gameEnds = 0]_vars
    /\ [](Ended => ~ENABLED Next)

\* Witness of C19: the second hand of a run has just been started.
C19_Witness ==
    /\ pc = "hand"
    /\ handInProgress
    /\ turns = 0 /\ rounds = 0
    /\ journal = <<journal[1]>>
    /\ journal[1].event = "hand_start"
    /\ journal[1].data.handIndex = 2

\* The last record of a sequence of records.
LastRecord(j) == j[Len(j)]

\* C20: the action kind and the bet size of a turn's player_action record
\* are the ones passed to actionTaken on that turn, and the name of the
\* record is the name of the roster player at the seat playerToAct returned
\* for the turn.
C20_LoggedActionIsAppliedAction ==
    /\ [](pc = "logged" =>
             /\ toAct \in 0 .. (players - 1)
             /\ LastEvent(journal) = "player_action"
             /\ LastRecord(journal).turn = turns
             /\ LastRecord(journal).data.name = PlayerName(toAct))
    /\ [][pc = "logged" =>
              /\ Len(applied') = Len(applied) + 1
              /\ LastRecord(applied').turn = LastRecord(journal).turn
              /\ LastRecord(applied').data.action = LastRecord(journal).data.action
              /\ LastRecord(applied').data.betSize = LastRecord(journal).data.betSize
              /\ LastRecord(applied').data.name = LastRecord(journal).data.name]_vars

\* Witness of C20: a bet of the least size offered, made by the player of the
\* second seat, is in the player_action record and in the actionTaken call
\* of the turn.
C20_Witness ==
    /\ pc = "round"
    /\ Len(applied) = turns
    /\ LastEvent(journal) = "player_action"
    /\ LastRecord(journal).data =
           [NoData EXCEPT !.name = PlayerName(1), !.action = "bet",
                          !.betSize = {RangeMin}]
    /\ LastRecord(applied).data = LastRecord(journal).data

====
